---- MODULE Spec2Model ----
(***************************************************************************)
(* A model of parse-mcc-pdf.py: the command line driver, the page-range    *)
(* resolver and page loop of extract_mcc_with_camelot, the row extractor   *)
(* extract_mcc_from_dataframe, the cleaner clean_description and           *)
(* save_results.                                                           *)
(*                                                                         *)
(* A Python str is a sequence of Unicode code points; None is <<>> and a    *)
(* value v is <<v>>; a dict is a function from its keys.  State that only  *)
(* feeds the console (successful_pages, page_mcc_count) is left out.       *)
(***************************************************************************)
EXTENDS Integers, Sequences, FiniteSets, TLC

(***************************************************************************)
(* Bounds of the model.                                                    *)
(***************************************************************************)
\* longest description string enumerated over Alphabet
MaxLen == 4
\* longest padding put around a header word
MaxPad == 1
\* largest page number on the command line and largest page count of a PDF
MaxPage == 2
\* most tables the detection engine returns for a page
MaxTables == 2
\* most rows of a table
MaxRows == 2

(***************************************************************************)
(* Program constants.                                                      *)
(***************************************************************************)
MIN_DESCRIPTION_LENGTH == 2


(***************************************************************************)
(* Character classes of Python's re and str on str values.                 *)
(***************************************************************************)
\* str.isspace / \s : whitespace code points
IsSpace(c) ==
    c \in ({9, 10, 11, 12, 13, 28, 29, 30, 31, 32, 133, 160, 5760}
           \cup (8192..8202) \cup {8232, 8233, 8239, 8287, 12288})

\* \d : decimal digits (ASCII and, as a non-ASCII representative, Arabic-Indic)
IsDigit(c) == c \in ((48..57) \cup (1632..1641))

\* \w : word characters, the complement of which makes \b
IsWord(c) == IsDigit(c) \/ c \in ((65..90) \cup (97..122) \cup {95})

\* the class [-–\s] of the artifact patterns
IsDashOrSpace(c) == c \in {45, 8211} \/ IsSpace(c)

\* re.IGNORECASE / str.lower on one code point (ASCII letters)
LowerChar(c) == IF c \in 65..90 THEN c + 32 ELSE c

\* str.lower()
Lower(s) == [i \in 1..Len(s) |-> LowerChar(s[i])]

(***************************************************************************)
(* String helpers.                                                         *)
(***************************************************************************)
\* whether c is stripped: whitespace, and with dashes also '-' and en dash
InClass(c, dashes) == IF dashes THEN IsDashOrSpace(c) ELSE IsSpace(c)

RECURSIVE LStripBy(_, _)
LStripBy(s, dashes) ==
    IF s # <<>> /\ InClass(Head(s), dashes) THEN LStripBy(Tail(s), dashes) ELSE s

RECURSIVE RStripBy(_, _)
RStripBy(s, dashes) ==
    IF s # <<>> /\ InClass(s[Len(s)], dashes)
    THEN RStripBy(SubSeq(s, 1, Len(s) - 1), dashes)
    ELSE s

\* str.strip()
Strip(s) == RStripBy(LStripBy(s, FALSE), FALSE)

\* re.sub(r'\s+', ' ', s): every maximal run of whitespace becomes one space
RECURSIVE CollapseWhitespace(_)
CollapseWhitespace(s) ==
    IF s = <<>> THEN <<>>
    ELSE IF IsSpace(Head(s))
         THEN <<32>> \o CollapseWhitespace(LStripBy(s, FALSE))
         ELSE <<Head(s)>> \o CollapseWhitespace(Tail(s))

\* str.replace(old, new) for single characters
Replace(s, old, new) == [i \in 1..Len(s) |-> IF s[i] = old THEN new ELSE s[i]]

\* '$' without re.MULTILINE: at the end, or just before a final newline;
\* i is the index of the next character to be consumed
AtEnd(s, i) == i = Len(s) + 1 \/ (i = Len(s) /\ s[i] = 10)

(***************************************************************************)
(* clean_description, step by step.                                        *)
(***************************************************************************)
\* line 131: re.sub(r'\s+', ' ', description.strip())
RemoveExtraWhitespace(s) == CollapseWhitespace(Strip(s))

\* line 134: en dash and em dash become '-'
ReplaceDashes(s) == Replace(Replace(s, 8211, 45), 8212, 45)

\* line 137: curly quotes become ' and "
ReplaceQuotes(s) ==
    Replace(Replace(Replace(Replace(s, 8216, 39), 8217, 39), 8220, 34), 8221, 34)

\* a faulty variant of RemoveArtifacts that drops the '+' of both alternatives
RemoveArtifactsOneChar(s) ==
    LET l == IF s # <<>> /\ IsDashOrSpace(Head(s)) THEN Tail(s) ELSE s
    IN  IF l # <<>> /\ IsDashOrSpace(l[Len(l)])
        THEN SubSeq(l, 1, Len(l) - 1)
        ELSE l

\* line 140: re.sub(r'^[-–\s]+|[-–\s]+$', '', description)
RemoveArtifacts(s) == RStripBy(LStripBy(s, TRUE), TRUE)

\* line 144: re.match(r'^\d+$', s)
MatchOnlyNumbers(s) ==
    \E n \in 1..Len(s) :
        /\ \A i \in 1..n : IsDigit(s[i])
        /\ AtEnd(s, n + 1)

\* line 145: re.match(r'^[-–\s]*$', s)
MatchOnlyDashes(s) ==
    \E n \in 0..Len(s) :
        /\ \A i \in 1..n : IsDashOrSpace(s[i])
        /\ AtEnd(s, n + 1)

\* re.match('^' + word + '$', s, re.IGNORECASE) for a literal word
MatchWord(s, word) ==
    /\ Len(s) >= Len(word)
    /\ Lower(SubSeq(s, 1, Len(word))) = Lower(word)
    /\ AtEnd(s, Len(word) + 1)

\* 'MCC', 'Title', 'Description'
HeaderWords ==
    { <<77, 67, 67>>,
      <<84, 105, 116, 108, 101>>,
      <<68, 101, 115, 99, 114, 105, 112, 116, 105, 111, 110>> }

\* line 146: re.match(r'^(MCC|Title|Description)$', s, re.IGNORECASE)
MatchHeaderWord(s) == \E w \in HeaderWords : MatchWord(s, w)

\* line 147: re.match(r'^\([^)]*\)$', s)
MatchOnlyParentheses(s) ==
    /\ Len(s) >= 2
    /\ s[1] = 40
    /\ \E n \in 2..Len(s) :
          /\ \A i \in 2..(n - 1) : s[i] # 41
          /\ s[n] = 41
          /\ AtEnd(s, n + 1)

\* line 148: re.match(r'^nan$', s, re.IGNORECASE)
MatchNan(s) == MatchWord(s, <<110, 97, 110>>)

\* a faulty variant of MatchesBadPattern that forgets re.IGNORECASE
MatchesBadPatternCaseSensitive(s) ==
    \/ MatchOnlyNumbers(s)
    \/ MatchOnlyDashes(s)
    \/ \E w \in HeaderWords \cup {<<110, 97, 110>>} :
          /\ Len(s) >= Len(w)
          /\ SubSeq(s, 1, Len(w)) = w
          /\ AtEnd(s, Len(w) + 1)
    \/ MatchOnlyParentheses(s)

\* lines 143-153: some bad pattern matches
MatchesBadPattern(s) ==
    \/ MatchOnlyNumbers(s)
    \/ MatchOnlyDashes(s)
    \/ MatchHeaderWord(s)
    \/ MatchOnlyParentheses(s)
    \/ MatchNan(s)

\* a faulty variant of TooShort that is off by one
TooShortOffByOne(s) == Len(s) < MIN_DESCRIPTION_LENGTH - 1

\* line 156: len(description) < MIN_DESCRIPTION_LENGTH
TooShort(s) == Len(s) < MIN_DESCRIPTION_LENGTH

\* lines 125-159
clean_description(description) ==
    IF description = <<>> THEN <<>>
    ELSE LET d == RemoveArtifacts(
                      ReplaceQuotes(ReplaceDashes(RemoveExtraWhitespace(description))))
         IN  IF MatchesBadPattern(d) THEN <<>>
             ELSE IF TooShort(d) THEN <<>>
             ELSE d

(***************************************************************************)
(* Inputs of the cleaner's specification.                                  *)
(***************************************************************************)
\* '1' '-' en-dash em-dash space newline 'a' '(' ')' left-single-quote
Alphabet == {49, 45, 8211, 8212, 32, 10, 97, 40, 41, 8216}

\* all strings over S of length at most n
StrsUpTo(S, n) == UNION {[1..k -> S] : k \in 0..n}

\* header words and 'nan' in several letter cases, and near misses
Words ==
    { <<77, 67, 67>>, <<109, 99, 99>>, <<77, 99, 99>>,
      <<84, 105, 116, 108, 101>>, <<84, 73, 84, 76, 69>>,
      <<68, 101, 115, 99, 114, 105, 112, 116, 105, 111, 110>>,
      <<100, 101, 115, 99, 114, 105, 112, 116, 105, 111, 110>>,
      <<110, 97, 110>>, <<78, 97, 78>>,
      <<77, 67>>, <<110, 97, 110, 97>> }

\* space, '-', em-dash, '(' around a word
PadChars == {32, 45, 8212, 40}

\* the descriptions the cleaner is run on: every string over Alphabet of at
\* most len characters, and every word with at most pad characters on each side
Descriptions(len, pad) ==
    StrsUpTo(Alphabet, len)
    \cup { pre \o w \o post : pre \in StrsUpTo(PadChars, pad),
                              w \in Words,
                              post \in StrsUpTo(PadChars \cup {41}, pad) }

(***************************************************************************)
(* Optional values: None is <<>>, a value v is <<v>>.                      *)
(***************************************************************************)
NoneVal == <<>>
Some(v) == <<v>>
IsNone(x) == x = <<>>
Val(x) == x[1]

\* Python's `x or d` on an optional int: None and 0 are falsy
OrDefault(x, d) == IF IsNone(x) \/ Val(x) = 0 THEN d ELSE x

(***************************************************************************)
(* int(s) and the command line.                                            *)
(***************************************************************************)
\* value of a decimal digit
DigitVal(c) == IF c \in 48..57 THEN c - 48 ELSE c - 1632

RECURSIVE DigitsVal(_)
DigitsVal(s) ==
    IF s = <<>> THEN 0
    ELSE 10 * DigitsVal(SubSeq(s, 1, Len(s) - 1)) + DigitVal(s[Len(s)])

\* int(s): NoneVal stands for ValueError; whitespace is stripped, a sign is
\* allowed, and so is one underscore between two digits
ParseInt(s) ==
    LET t == Strip(s)
        signed == t # <<>> /\ t[1] \in {43, 45}
        body == IF signed THEN Tail(t) ELSE t
        wellFormed ==
            /\ body # <<>>
            /\ \A k \in 1..Len(body) :
                  \/ IsDigit(body[k])
                  \/ /\ body[k] = 95
                     /\ 1 < k /\ k < Len(body)
                     /\ IsDigit(body[k - 1]) /\ IsDigit(body[k + 1])
        magnitude == DigitsVal(SelectSeq(body, IsDigit))
    IN  IF wellFormed
        THEN Some(IF signed /\ t[1] = 45 THEN 0 - magnitude ELSE magnitude)
        ELSE NoneVal

\* 'lattice', 'stream'
LATTICE == <<108, 97, 116, 116, 105, 99, 101>>
STREAM == <<115, 116, 114, 101, 97, 109>>

\* 'mcc.pdf', line 173
DefaultPdfPath == <<109, 99, 99, 46, 112, 100, 102>>

(***************************************************************************)
(* extract_mcc_from_dataframe, one row.                                    *)
(***************************************************************************)
\* whether r'\b(\d{4})\b' matches s at index i
CodeMatchAt(s, i) ==
    /\ i + 3 <= Len(s)
    /\ \A j \in i..(i + 3) : IsDigit(s[j])
    /\ (i = 1 \/ ~IsWord(s[i - 1]))
    /\ (i + 4 > Len(s) \/ ~IsWord(s[i + 4]))

\* line 107: re.search(r'\b(\d{4})\b', col1), scanning from index i;
\* NoneVal for no match, else the group
RECURSIVE SearchCodeFrom(_, _)
SearchCodeFrom(s, i) ==
    IF i > Len(s) THEN NoneVal
    ELSE IF CodeMatchAt(s, i) THEN Some(SubSeq(s, i, i + 3))
    ELSE SearchCodeFrom(s, i + 1)

\* a faulty variant of SearchCode that matches only at the start of the cell
SearchCodeAnchored(s) == IF CodeMatchAt(s, 1) THEN Some(SubSeq(s, 1, 4)) ELSE NoneVal

SearchCode(s) == SearchCodeFrom(s, 1)

\* a dict with key k set to v
DictSet(d, k, v) == [x \in DOMAIN d \cup {k} |-> IF x = k THEN v ELSE d[x]]

\* a faulty variant of DictUpdate that keeps the entries already present
DictUpdateKeepOld(d, e) ==
    [x \in DOMAIN d \cup DOMAIN e |-> IF x \in DOMAIN d THEN d[x] ELSE e[x]]

\* dict.update
DictUpdate(d, e) ==
    [x \in DOMAIN d \cup DOMAIN e |-> IF x \in DOMAIN e THEN e[x] ELSE d[x]]

EmptyDict == <<>>

\* lines 104-121: the body of the row loop on the table's dict d and row r
RowUpdate(d, r) ==
    LET col1 == IF Len(r) > 0 THEN Strip(r[1]) ELSE <<>>
        mcc_match == SearchCode(col1)
    IN  IF IsNone(mcc_match) THEN d
        ELSE IF Len(r) > 1
             THEN LET desc == Strip(r[2])
                  IN  IF desc # <<>> /\ desc # <<110, 97, 110>>
                      THEN LET c == clean_description(desc)
                           IN  IF c # <<>> /\ Len(c) >= MIN_DESCRIPTION_LENGTH
                               THEN DictSet(d, Val(mcc_match), c)
                               ELSE d
                      ELSE d
             ELSE d

(***************************************************************************)
(* Inputs of the program's specification.                                  *)
(***************************************************************************)
\* the script name, 'a' and 'b' as PDF paths
ScriptName == <<112>>
Paths == {<<97>>, <<98>>}

\* '0', '1', ... as typed on the command line
NumTokens == {<<48 + n>> : n \in 0..MaxPage}

\* 'x': no integer
BadToken == <<120>>

\* 'lattice', 'LATTICE', 'stream', 'Hybrid'
MethodTokens ==
    { LATTICE, <<76, 65, 84, 84, 73, 67, 69>>, STREAM, <<72, 121, 98, 114, 105, 100>> }

ArgLists ==
    {<<ScriptName>>}
    \cup {<<ScriptName, p>> : p \in Paths}
    \cup {<<ScriptName, p, a>> : p \in Paths, a \in NumTokens \cup {BadToken}}
    \cup {<<ScriptName, p, a, b>> :
            p \in Paths, a \in NumTokens \cup {BadToken}, b \in NumTokens \cup MethodTokens}
    \cup {<<ScriptName, p, a, b, m>> :
            p \in Paths, a \in NumTokens, b \in NumTokens \cup {BadToken},
            m \in {STREAM, <<72, 121, 98, 114, 105, 100>>}}

\* the rows of the document the extraction alone is run on: every kind of row
Rows ==
    { << <<52, 55, 50, 50>>, <<65, 98, 32, 8212, 32>> >>,        \* '4722', 'Ab — '
      << <<52, 55, 50, 50>>, <<67, 100>> >>,                      \* '4722', 'Cd'
      << <<49, 50, 32, 52, 55, 56, 57, 32, 53, 53>>, <<65, 98>> >>, \* '12 4789 55', 'Ab'
      << <<52, 55, 50, 50>>, <<110, 97, 110>> >>,                 \* '4722', 'nan'
      << <<52, 55, 50, 50>> >>,                                   \* '4722' alone
      << >>,                                                      \* no cell
      << <<52, 55, 50, 50, 49>>, <<65, 98>> >>,                   \* '47221', 'Ab'
      << <<52, 55, 56, 57>>, <<40, 120, 41>> >>,                  \* '4789', '(x)'
      << <<52, 55, 50, 50>>, <<32>> >>,                           \* '4722', ' '
      << <<52, 55, 56, 57>>, <<65>> >> }                          \* '4789', 'A'

\* the rows of the document the whole program is run on
DriverRows ==
    { << <<52, 55, 50, 50>>, <<65, 98, 32, 8212, 32>> >>,          \* '4722', 'Ab — '
      << <<49, 50, 32, 52, 55, 56, 57, 32, 53, 53>>, <<65, 98>> >>, \* '12 4789 55', 'Ab'
      << <<52, 55, 50, 50>>, <<110, 97, 110>> >> }                 \* '4722', 'nan'

\* the rows the tables of a document are made of
RowsOf(doc) ==
    IF doc = "two codes" THEN DriverRows
    ELSE IF doc = "every row" THEN Rows
    ELSE {}

(***************************************************************************)
(* What a row contributes, in the words of the row-level algorithm: the    *)
(* first 4-digit run of the first cell that word boundaries delimit, and   *)
(* the cleaned second cell.                                                *)
(***************************************************************************)
DelimitedRuns(s) ==
    { i \in 1..Len(s) :
        /\ i + 3 <= Len(s)
        /\ \A j \in 0..3 : IsDigit(s[i + j])
        /\ (i > 1 => ~IsWord(s[i - 1]))
        /\ (i + 4 <= Len(s) => ~IsWord(s[i + 4])) }

HasCode(r) == Len(r) >= 1 /\ DelimitedRuns(Strip(r[1])) # {}

CodeOf(r) ==
    LET s == Strip(r[1])
        i == CHOOSE k \in DelimitedRuns(s) : \A l \in DelimitedRuns(s) : k <= l
    IN  SubSeq(s, i, i + 3)

Contributes(r) ==
    /\ HasCode(r)
    /\ Len(r) >= 2
    /\ Strip(r[2]) # <<>>
    /\ Strip(r[2]) # <<110, 97, 110>>
    /\ clean_description(Strip(r[2])) # <<>>

DescriptionOf(r) == clean_description(Strip(r[2]))

VARIABLES
    cpc,           \* position of the cleaner's harness: "input", "cleaned", "recleaned"
    raw,           \* the argument of clean_description
    cleaned,       \* clean_description(raw)
    recleaned,     \* clean_description(cleaned)
    pc,            \* position of the program
    files,         \* the paths that exist on disk
    document,      \* the PDF on disk: which rows its tables are made of
    argv,          \* sys.argv
    pdf_path,      \* __main__: pdf_path
    arg_start_page,\* __main__: start_page, as passed to extract_mcc_with_camelot
    arg_end_page,  \* __main__: end_page, as passed
    method,        \* __main__: method
    start_page,    \* extract_mcc_with_camelot: start_page
    end_page,      \* extract_mcc_with_camelot: end_page
    page_count,    \* extract_mcc_with_camelot: page_count (None until a query succeeds)
    count_queries, \* calls of get_pdf_page_count so far
    page_num,      \* the page the loop is at
    n_tables,      \* len(tables) of the current page
    i,             \* index of the current table
    rows_done,     \* rows of the current table consumed so far
    row,           \* the row last consumed
    mcc_data,      \* extract_mcc_from_dataframe: mcc_data of the current table
    all_mcc_data,  \* extract_mcc_with_camelot: all_mcc_data
    failed_pages,
    engine_calls,  \* the calls of camelot.read_pdf so far: <<page, flavor>>
    raised,        \* the pages on which camelot.read_pdf raised
    last_valid,    \* per code, the description of the last contributing row
    overwritten,   \* whether an entry of all_mcc_data was replaced by another value
    main_mcc_data, \* __main__: mcc_data
    write_attempts,\* calls of save_results so far
    output_file,   \* content of mcc_data_output.json
    exit_status    \* exit status of the process

cvars == <<cpc, raw, cleaned, recleaned>>

pvars == <<pc, files, document, argv, pdf_path, arg_start_page, arg_end_page, method, start_page,
           end_page, page_count, count_queries, page_num, n_tables, i, rows_done, row, mcc_data,
           all_mcc_data, failed_pages, engine_calls, raised,
           last_valid, overwritten, main_mcc_data, write_attempts, output_file,
           exit_status>>

vars == <<cvars, pvars>>

\* sys.argv[n]
Arg(n) == argv[n + 1]
\* len(sys.argv)
Argc == Len(argv)

\* the program before it has run
ProgramAtStart ==
    /\ pdf_path = DefaultPdfPath
    /\ arg_start_page = NoneVal
    /\ arg_end_page = NoneVal
    /\ method = LATTICE
    /\ start_page = NoneVal
    /\ end_page = NoneVal
    /\ page_count = NoneVal
    /\ count_queries = 0
    /\ page_num = 0
    /\ n_tables = 0
    /\ i = 0
    /\ rows_done = 0
    /\ row = <<>>
    /\ mcc_data = EmptyDict
    /\ all_mcc_data = EmptyDict
    /\ failed_pages = <<>>
    /\ engine_calls = <<>>
    /\ raised = {}
    /\ last_valid = EmptyDict
    /\ overwritten = FALSE
    /\ main_mcc_data = EmptyDict
    /\ write_attempts = 0
    /\ output_file = NoneVal
    /\ exit_status = NoneVal

CleanerIdle ==
    /\ cpc = "idle"
    /\ raw = <<>>
    /\ cleaned = <<>>
    /\ recleaned = <<>>

Init ==
    /\ pc = "main"
    /\ files \in {{<<97>>}, {DefaultPdfPath}}
    /\ document = "two codes"
    /\ argv \in ArgLists
    /\ ProgramAtStart
    /\ CleanerIdle

(***************************************************************************)
(* __main__, lines 172-197.                                                *)
(***************************************************************************)
\* a faulty variant of PathExists that takes every path to exist
PathExistsAlways(path) == TRUE

\* line 195: os.path.exists(pdf_path)
PathExists(path) == path \in files

\* a faulty variant of ParsedMethod that forgets .lower()
ParsedMethodAsTyped(token) == token

\* lines 189, 192: sys.argv[k].lower()
ParsedMethod(token) == Lower(token)

\* the uncaught ValueError of int(sys.argv[2]), line 182
StartPageRaises == Argc > 2 /\ IsNone(ParseInt(Arg(2)))

\* lines 183-192: whether sys.argv[3] is the end page
ThirdIsEndPage == Argc > 3 /\ ~IsNone(ParseInt(Arg(3)))

\* line 180
MainPdfPath == IF Argc > 1 THEN Arg(1) ELSE DefaultPdfPath

\* lines 183-192
MainMethod ==
    IF Argc > 3
    THEN IF ThirdIsEndPage
         THEN IF Argc > 4 THEN ParsedMethod(Arg(4)) ELSE LATTICE
         ELSE ParsedMethod(Arg(3))
    ELSE LATTICE

\* the process ends: an uncaught exception or sys.exit(1) gives status 1
Exit(status) ==
    /\ pc' = "exit"
    /\ exit_status' = Some(status)

\* int(sys.argv[2]) raises ValueError: traceback, exit status 1
MainValueError ==
    /\ pc = "main"
    /\ StartPageRaises
    /\ pdf_path' = MainPdfPath
    /\ Exit(1)
    /\ UNCHANGED <<cvars, files, document, argv, arg_start_page, arg_end_page, method, start_page,
                   end_page, page_count, count_queries, page_num, n_tables, i, rows_done, row,
                   mcc_data, all_mcc_data, failed_pages, engine_calls,
                   raised, last_valid, overwritten, main_mcc_data, write_attempts,
                   output_file>>

\* the arguments parse and the PDF is missing: sys.exit(1)
MainNotFound ==
    /\ pc = "main"
    /\ ~StartPageRaises
    /\ ~PathExists(MainPdfPath)
    /\ pdf_path' = MainPdfPath
    /\ arg_start_page' = (IF Argc > 2 THEN ParseInt(Arg(2)) ELSE NoneVal)
    /\ arg_end_page' = (IF ThirdIsEndPage THEN ParseInt(Arg(3)) ELSE NoneVal)
    /\ method' = MainMethod
    /\ Exit(1)
    /\ UNCHANGED <<cvars, files, document, argv, start_page,
                   end_page, page_count, count_queries, page_num, n_tables, i, rows_done, row,
                   mcc_data, all_mcc_data, failed_pages, engine_calls,
                   raised, last_valid, overwritten, main_mcc_data, write_attempts,
                   output_file>>

\* the arguments parse and the PDF exists: extract_mcc_with_camelot is called (line 211)
MainCall ==
    /\ pc = "main"
    /\ ~StartPageRaises
    /\ PathExists(MainPdfPath)
    /\ pdf_path' = MainPdfPath
    /\ arg_start_page' = (IF Argc > 2 THEN ParseInt(Arg(2)) ELSE NoneVal)
    /\ arg_end_page' = (IF ThirdIsEndPage THEN ParseInt(Arg(3)) ELSE NoneVal)
    /\ method' = MainMethod
    /\ start_page' = arg_start_page'
    /\ end_page' = arg_end_page'
    /\ pc' = "resolve"
    /\ UNCHANGED <<cvars, files, document, argv, page_count, count_queries, page_num, n_tables, i, rows_done,
                   row, mcc_data, all_mcc_data, failed_pages,
                   engine_calls, raised, last_valid, overwritten, main_mcc_data,
                   write_attempts, output_file, exit_status>>

(***************************************************************************)
(* extract_mcc_with_camelot, lines 28-92.                                  *)
(***************************************************************************)
\* the outcomes of get_pdf_page_count: None on failure, else the count
PageCounts == {NoneVal} \cup {Some(n) : n \in 0..MaxPage}

\* lines 34, 37: start_page or 1
ResolvedStart(start, count) == OrDefault(start, Some(1))

\* lines 35, 38: end_page or 1, end_page or page_count
ResolvedEnd(end, count) ==
    IF IsNone(count) THEN OrDefault(end, Some(1)) ELSE OrDefault(end, count)

\* lines 30-39 with an unset bound: the page count is queried
ResolveQuery ==
    /\ pc = "resolve"
    /\ IsNone(start_page) \/ IsNone(end_page)
    /\ \E count \in PageCounts :
          /\ page_count' = count
          /\ start_page' = ResolvedStart(start_page, count)
          /\ end_page' = ResolvedEnd(end_page, count)
          /\ page_num' = Val(start_page')
    /\ count_queries' = count_queries + 1
    /\ pc' = "loop"
    /\ UNCHANGED <<cvars, files, document, argv, pdf_path, arg_start_page, arg_end_page, method,
                   n_tables, i, rows_done, row, mcc_data, all_mcc_data, failed_pages, engine_calls, raised, last_valid, overwritten,
                   main_mcc_data, write_attempts, output_file, exit_status>>

\* line 30 with both bounds given
ResolveGiven ==
    /\ pc = "resolve"
    /\ ~(IsNone(start_page) \/ IsNone(end_page))
    /\ page_num' = Val(start_page)
    /\ pc' = "loop"
    /\ UNCHANGED <<cvars, files, document, argv, pdf_path, arg_start_page, arg_end_page, method,
                   start_page, end_page, page_count, count_queries,
                   n_tables, i, rows_done, row, mcc_data, all_mcc_data, failed_pages, engine_calls, raised, last_valid, overwritten,
                   main_mcc_data, write_attempts, output_file, exit_status>>

\* lines 54-57: the flavor camelot.read_pdf is called with
Flavor(m) == IF m = LATTICE THEN LATTICE ELSE STREAM

\* a faulty variant of AfterFailure that leaves the loop (break for continue)
AfterFailureBreak(page) == Val(end_page) + 1

\* line 79: continue, the loop goes on with the next page
AfterFailure(page) == page + 1

\* lines 76-78: what the except clause appends to failed_pages
FailedPagesAfter(failed, page) == Append(failed, page)

\* lines 50-57, 76-79: camelot.read_pdf raises on this page
PageRaises ==
    /\ pc = "loop"
    /\ page_num <= Val(end_page)
    /\ engine_calls' = Append(engine_calls, <<page_num, Flavor(method)>>)
    /\ raised' = raised \cup {page_num}
    /\ failed_pages' = FailedPagesAfter(failed_pages, page_num)
    /\ page_num' = AfterFailure(page_num)
    /\ UNCHANGED <<cvars, pc, files, document, argv, pdf_path, arg_start_page, arg_end_page, method,
                   start_page, end_page, page_count, count_queries,
                   n_tables, i, rows_done, row, mcc_data, all_mcc_data, last_valid, overwritten,
                   main_mcc_data, write_attempts, output_file, exit_status>>

\* lines 50-59, 73-74: camelot.read_pdf returns no table
PageNoTables ==
    /\ pc = "loop"
    /\ page_num <= Val(end_page)
    /\ engine_calls' = Append(engine_calls, <<page_num, Flavor(method)>>)
    /\ n_tables' = 0
    /\ page_num' = page_num + 1
    /\ UNCHANGED <<cvars, pc, files, document, argv, pdf_path, arg_start_page, arg_end_page, method,
                   start_page, end_page, page_count, count_queries,
                   i, rows_done, row, mcc_data, all_mcc_data, failed_pages, raised, last_valid, overwritten,
                   main_mcc_data, write_attempts, output_file, exit_status>>

\* lines 50-63: camelot.read_pdf returns n > 0 tables; the first one is entered
PageTables ==
    /\ pc = "loop"
    /\ page_num <= Val(end_page)
    /\ engine_calls' = Append(engine_calls, <<page_num, Flavor(method)>>)
    /\ n_tables' \in 1..MaxTables
    /\ i' = 0
    /\ rows_done' = 0
    /\ row' = <<>>
    /\ mcc_data' = EmptyDict
    /\ pc' = "rows"
    /\ UNCHANGED <<cvars, files, document, argv, pdf_path, arg_start_page, arg_end_page, method,
                   start_page, end_page, page_count, count_queries, page_num,
                   all_mcc_data, failed_pages, raised, last_valid, overwritten,
                   main_mcc_data, write_attempts, output_file, exit_status>>

\* lines 103-121: one more row of the current table
NextRow ==
    /\ pc = "rows"
    /\ rows_done < MaxRows
    /\ \E r \in RowsOf(document) :
          /\ row' = r
          /\ mcc_data' = RowUpdate(mcc_data, r)
          /\ last_valid' = IF Contributes(r)
                           THEN DictSet(last_valid, CodeOf(r), DescriptionOf(r))
                           ELSE last_valid
    /\ rows_done' = rows_done + 1
    /\ UNCHANGED <<cvars, pc, files, document, argv, pdf_path, arg_start_page, arg_end_page, method,
                   start_page, end_page, page_count, count_queries, page_num, n_tables, i,
                   all_mcc_data, failed_pages, engine_calls, raised, overwritten,
                   main_mcc_data, write_attempts, output_file, exit_status>>

\* lines 123, 64-67: the table has no more rows; its codes are merged and the
\* next table of the page, or the next page, is entered
TableDone ==
    /\ pc = "rows"
    /\ IF mcc_data # EmptyDict
       THEN /\ all_mcc_data' = DictUpdate(all_mcc_data, mcc_data)
            /\ overwritten' =
                  (overwritten \/ \E k \in DOMAIN mcc_data \cap DOMAIN all_mcc_data :
                                     mcc_data[k] # all_mcc_data[k])
       ELSE UNCHANGED <<all_mcc_data, overwritten>>
    /\ mcc_data' = EmptyDict
    /\ rows_done' = 0
    /\ row' = <<>>
    /\ IF i + 1 < n_tables
       THEN /\ i' = i + 1
            /\ UNCHANGED <<pc, page_num>>
       ELSE /\ i' = 0
            /\ pc' = "loop"
            /\ page_num' = page_num + 1
    /\ UNCHANGED <<cvars, files, document, argv, pdf_path, arg_start_page, arg_end_page, method,
                   start_page, end_page, page_count, count_queries, n_tables,
                   failed_pages, engine_calls, raised, last_valid,
                   main_mcc_data, write_attempts, output_file, exit_status>>

\* lines 81-92, 211: the range is exhausted; all_mcc_data is returned to __main__
Return ==
    /\ pc = "loop"
    /\ page_num > Val(end_page)
    /\ main_mcc_data' = all_mcc_data
    /\ pc' = "save"
    /\ UNCHANGED <<cvars, files, document, argv, pdf_path, arg_start_page, arg_end_page, method,
                   start_page, end_page, page_count, count_queries, page_num, n_tables, i, rows_done,
                   row, mcc_data, all_mcc_data, failed_pages,
                   engine_calls, raised, last_valid, overwritten,
                   write_attempts, output_file, exit_status>>

(***************************************************************************)
(* save_results and the end of __main__, lines 161-170 and 213-219.        *)
(***************************************************************************)
\* lines 213-219: what save_results is called with
SavedData == IF main_mcc_data # EmptyDict THEN main_mcc_data ELSE EmptyDict

\* one call of save_results; the write succeeds or raises (caught, line 168)
Save ==
    /\ pc = "save"
    /\ \E ok \in BOOLEAN :
          output_file' = IF ok THEN Some(SavedData) ELSE output_file
    /\ write_attempts' = write_attempts + 1
    /\ Exit(0)
    /\ UNCHANGED <<cvars, files, document, argv, pdf_path, arg_start_page, arg_end_page, method,
                   start_page, end_page, page_count, count_queries, page_num, n_tables, i, rows_done,
                   row, mcc_data, all_mcc_data, failed_pages,
                   engine_calls, raised, last_valid, overwritten, main_mcc_data>>

Next ==
    \/ MainValueError
    \/ MainNotFound
    \/ MainCall
    \/ ResolveQuery
    \/ ResolveGiven
    \/ PageRaises
    \/ PageNoTables
    \/ PageTables
    \/ NextRow
    \/ TableDone
    \/ Return
    \/ Save

Spec == Init /\ [][Next]_vars

(***************************************************************************)
(* extract_mcc_with_camelot on its own, called with an explicit page range *)
(* on a PDF whose tables hold every kind of row.                           *)
(***************************************************************************)
InitExtract ==
    /\ pc = "resolve"
    /\ files = {<<97>>}
    /\ document = "every row"
    /\ argv = <<ScriptName, <<97>>, <<49>>, <<48 + MaxPage>>>>
    /\ pdf_path = <<97>>
    /\ arg_start_page = Some(1)
    /\ arg_end_page = Some(MaxPage)
    /\ method = LATTICE
    /\ start_page = Some(1)
    /\ end_page = Some(MaxPage)
    /\ page_count = NoneVal
    /\ count_queries = 0
    /\ page_num = 0
    /\ n_tables = 0
    /\ i = 0
    /\ rows_done = 0
    /\ row = <<>>
    /\ mcc_data = EmptyDict
    /\ all_mcc_data = EmptyDict
    /\ failed_pages = <<>>
    /\ engine_calls = <<>>
    /\ raised = {}
    /\ last_valid = EmptyDict
    /\ overwritten = FALSE
    /\ main_mcc_data = EmptyDict
    /\ write_attempts = 0
    /\ output_file = NoneVal
    /\ exit_status = NoneVal
    /\ CleanerIdle

NextExtract ==
    \/ ResolveGiven
    \/ PageRaises
    \/ PageNoTables
    \/ PageTables
    \/ NextRow
    \/ TableDone
    \/ Return

SpecExtract == InitExtract /\ [][NextExtract]_vars

(***************************************************************************)
(* The cleaner on its own: clean_description applied to a description, and *)
(* once more to its result.                                                *)
(***************************************************************************)
InitClean ==
    /\ cpc = "input"
    /\ raw \in Descriptions(MaxLen, MaxPad)
    /\ cleaned = <<>>
    /\ recleaned = <<>>
    /\ pc = "idle"
    /\ files = {}
    /\ document = "none"
    /\ argv = <<ScriptName>>
    /\ ProgramAtStart

\* one call of clean_description on the input
Clean ==
    /\ cpc = "input"
    /\ cleaned' = clean_description(raw)
    /\ cpc' = "cleaned"
    /\ UNCHANGED <<raw, recleaned, pvars>>

\* a second call, on the result of the first
CleanAgain ==
    /\ cpc = "cleaned"
    /\ recleaned' = clean_description(cleaned)
    /\ cpc' = "recleaned"
    /\ UNCHANGED <<raw, cleaned, pvars>>

NextClean == Clean \/ CleanAgain

SpecClean == InitClean /\ [][NextClean]_vars

(***************************************************************************)
(* Properties.                                                             *)
(***************************************************************************)
\* the page loop has run to its end
LoopFinished == pc = "save" \/ (pc = "exit" /\ write_attempts > 0)

\* the page numbers the detection engine was called with, in call order
PagesAttempted == [k \in 1..Len(engine_calls) |-> engine_calls[k][1]]

\* C1: page-level fault isolation.  When the page loop has ended, the pages
\* attempted are start_page..end_page, each once and in ascending order; the
\* failed-pages list holds exactly the pages on which the engine raised, each
\* once; and every code some row contributed is in the returned mapping.
C1_FaultIsolation ==
    LoopFinished =>
        /\ Len(PagesAttempted) =
              (IF Val(end_page) >= Val(start_page)
               THEN Val(end_page) - Val(start_page) + 1 ELSE 0)
        /\ \A k \in 1..Len(PagesAttempted) : PagesAttempted[k] = Val(start_page) + k - 1
        /\ {failed_pages[k] : k \in 1..Len(failed_pages)} = raised
        /\ \A k, l \in 1..Len(failed_pages) : k < l => failed_pages[k] < failed_pages[l]
        /\ DOMAIN last_valid \subseteq DOMAIN main_mcc_data

\* the engine raises on page 1 and succeeds on pages 0 and 2, which give both codes
C1_Witness ==
    /\ LoopFinished
    /\ PagesAttempted = <<0, 1, 2>>
    /\ failed_pages = <<1>>
    /\ DOMAIN main_mcc_data = {<<52, 55, 50, 50>>, <<52, 55, 56, 57>>}

\* C2: when pdf_path does not exist on disk, the run exits with status 1
\* without a page-count query, an engine call or a write of the output file.
C2_MissingFileExits ==
    (pc # "main" /\ pdf_path \notin files) =>
        /\ pc = "exit"
        /\ exit_status = Some(1)
        /\ count_queries = 0
        /\ engine_calls = <<>>
        /\ write_attempts = 0
        /\ output_file = NoneVal

\* a run with a page range on the command line and a missing PDF has exited
C2_Witness ==
    /\ pc = "exit"
    /\ pdf_path \notin files
    /\ ~IsNone(arg_start_page)
    /\ ~IsNone(arg_end_page)
    /\ exit_status = Some(1)

\* C3, as claimed: whenever the pdf_path of the command line exists, the run
\* ends with one write attempt of the output file and exit status 0.
C3_OnlyMissingFileAborts ==
    (pc = "exit" /\ MainPdfPath \in files) =>
        /\ exit_status = Some(0)
        /\ write_attempts = 1

\* the method typed on the command line, 'lattice' when there is none
MethodTyped ==
    IF Argc > 4 /\ ~IsNone(ParseInt(Arg(3))) THEN Arg(4)
    ELSE IF Argc > 3 /\ IsNone(ParseInt(Arg(3))) THEN Arg(3)
    ELSE LATTICE

\* C4, as claimed: the engine receives the lower-cased method argument itself.
C4_MethodPassedThrough ==
    \A k \in 1..Len(engine_calls) : engine_calls[k][2] = Lower(MethodTyped)

\* C4, amended: the method is the lower-cased argument; 'lattice' gives the
\* flavor lattice and every other value gives the flavor stream.
C4_MethodMappedToTwoFlavors ==
    /\ pc \notin {"main", "exit"} => method = Lower(MethodTyped)
    /\ \A k \in 1..Len(engine_calls) :
          engine_calls[k][2] =
              (IF Lower(MethodTyped) = LATTICE THEN LATTICE ELSE STREAM)

\* the method 'Hybrid' was typed and the engine was called with stream
C4_Witness ==
    /\ MethodTyped = <<72, 121, 98, 114, 105, 100>>
    /\ engine_calls # <<>>
    /\ engine_calls[1][2] = STREAM

\* the page range has been resolved
Resolved == pc \in {"loop", "rows", "save"} \/ (pc = "exit" /\ write_attempts > 0)

\* C5, as claimed: a bound the caller supplied is used as it is, whatever its
\* value; an unset bound is 1 (start) and the page count or 1 (end); the page
\* count is queried only when a bound is unset.
C5_SuppliedBoundsUsedAsIs ==
    Resolved =>
        /\ ~IsNone(arg_start_page) => start_page = arg_start_page
        /\ ~IsNone(arg_end_page) => end_page = arg_end_page
        /\ IsNone(arg_start_page) => start_page = Some(1)
        /\ IsNone(arg_end_page) =>
              end_page = (IF IsNone(page_count) THEN Some(1) ELSE page_count)
        /\ count_queries = (IF IsNone(arg_start_page) \/ IsNone(arg_end_page) THEN 1 ELSE 0)

\* the strings the cleaner is claimed to reject, each matched in full
OnlyDigits(s) == s # <<>> /\ \A k \in 1..Len(s) : IsDigit(s[k])
OnlyDashesOrSpaces(s) == \A k \in 1..Len(s) : s[k] \in {45, 8211} \/ IsSpace(s[k])
IsHeaderWord(s) == Lower(s) \in {Lower(w) : w \in HeaderWords}
OneParenthesizedFragment(s) ==
    /\ Len(s) >= 2
    /\ s[1] = 40
    /\ s[Len(s)] = 41
    /\ \A k \in 2..(Len(s) - 1) : s[k] # 41
IsNan(s) == s = <<110, 97, 110>>

ClaimedRejected(s) ==
    \/ OnlyDigits(s)
    \/ OnlyDashesOrSpaces(s)
    \/ IsHeaderWord(s)
    \/ OneParenthesizedFragment(s)
    \/ IsNan(s)

\* C6: clean_description returns '' for every string that is only digits,
\* only hyphens, en dashes and whitespace, a header word in any letter case,
\* one parenthesized fragment, or 'nan'.
C6_BadDescriptionsRejected ==
    (cpc # "input" /\ ClaimedRejected(raw)) => cleaned = <<>>

\* 'TITLE' has been cleaned to ''
C6_Witness ==
    /\ cpc = "cleaned"
    /\ raw = <<84, 73, 84, 76, 69>>
    /\ cleaned = <<>>

\* C7: a non-empty result of clean_description has at least
\* MIN_DESCRIPTION_LENGTH characters and neither begins nor ends with a
\* hyphen, an en dash or a whitespace character.
C7_AcceptedShape ==
    (cpc # "input" /\ cleaned # <<>>) =>
        /\ Len(cleaned) >= MIN_DESCRIPTION_LENGTH
        /\ cleaned[1] \notin {45, 8211}
        /\ ~IsSpace(cleaned[1])
        /\ cleaned[Len(cleaned)] \notin {45, 8211}
        /\ ~IsSpace(cleaned[Len(cleaned)])

\* a description with an en dash in front and an em dash behind was accepted
C7_Witness ==
    /\ cpc = "cleaned"
    /\ raw # <<>>
    /\ raw[1] = 8211
    /\ raw[Len(raw)] = 8212
    /\ cleaned # <<>>

\* C8: cleaning an accepted result again gives the same result.
C8_Idempotent ==
    (cpc = "recleaned" /\ cleaned # <<>>) => recleaned = cleaned

\* an accepted result that differs from its input was cleaned again
C8_Witness ==
    /\ cpc = "recleaned"
    /\ cleaned # <<>>
    /\ cleaned # raw
    /\ recleaned = cleaned

\* the mapping as it will be once the current table is merged
MergedSoFar == DictUpdate(all_mcc_data, mcc_data)

\* C9: the mapping never loses a code, and it holds for each code the cleaned
\* description of the last contributing row in iteration order: after every
\* table, and in what is returned.
C9_LastWriteWins ==
    /\ [][DOMAIN all_mcc_data \subseteq DOMAIN all_mcc_data']_vars
    /\ [](pc = "loop" => all_mcc_data = last_valid)
    /\ [](pc = "rows" => MergedSoFar = last_valid)
    /\ [](pc = "save" => main_mcc_data = last_valid)

\* the mapping was returned after an entry was overwritten and a page failed
C9_Witness ==
    /\ pc = "save"
    /\ overwritten
    /\ raised # {}
    /\ main_mcc_data # EmptyDict

\* every entry of d is a 4-digit code with an accepted description, both taken
\* from one row of the PDF
ValidEntries(d) ==
    \A k \in DOMAIN d :
        /\ Len(k) = 4
        /\ \A j \in 1..4 : IsDigit(k[j])
        /\ Len(d[k]) >= MIN_DESCRIPTION_LENGTH
        /\ \E r \in RowsOf(document) :
              /\ Len(r) >= 2
              /\ HasCode(r)
              /\ k = CodeOf(r)
              /\ d[k] = clean_description(Strip(r[2]))

\* C10: every stored entry is valid, and each row consumed adds the entry of
\* its first delimited 4-digit run and its cleaned description, or nothing
\* when the row has no first cell, no such run, no second cell, an empty or
\* 'nan' second cell, or a rejected description.
C10_ValidEntries ==
    /\ [](ValidEntries(mcc_data) /\ ValidEntries(all_mcc_data)
          /\ ValidEntries(main_mcc_data))
    /\ [][rows_done' = rows_done + 1 =>
            mcc_data' = (IF Contributes(row')
                         THEN DictSet(mcc_data, CodeOf(row'), DescriptionOf(row'))
                         ELSE mcc_data)]_vars

\* the row '12 4789 55', 'Ab' gave the entry 4789 -> 'Ab', and a 'nan' row
\* that followed left it alone
C10_Witness ==
    /\ pc = "rows"
    /\ rows_done = 2
    /\ row = << <<52, 55, 50, 50>>, <<110, 97, 110>> >>
    /\ DOMAIN mcc_data = {<<52, 55, 56, 57>>}
    /\ mcc_data[<<52, 55, 56, 57>>] = <<65, 98>>

====
